---- MODULE Spec2Model ----
(***************************************************************************)
(* Model of the DiffieHellman session class (src/src/DiffieHellman.js) and *)
(* its helpers (src/src/helpers/index.js).                                 *)
(*                                                                         *)
(* A JavaScript string is a sequence of one-character strings.  A BigInt   *)
(* is a record [neg, mag] whose magnitude is a big-endian sequence of      *)
(* decimal digits without leading zeros (<<>> is zero), so that values    *)
(* beyond the machine integers of the model checker stay exact.  A thrown  *)
(* exception is the value of the "err" field of an operation's result.     *)
(***************************************************************************)
EXTENDS Integers, Sequences, FiniteSets, TLC

VARIABLES sess, last, hist, cv

vars == <<sess, last, hist, cv>>

----------------------------------------------------------------------------
(* Characters and strings *)

DigitChars == <<"0", "1", "2", "3", "4", "5", "6", "7", "8", "9">>

Digit == {DigitChars[i] : i \in 1..10}

DigitVal(c) == (CHOOSE i \in 1..10 : DigitChars[i] = c) - 1

BinDigit == {"0", "1"}

WhiteSpace == {" "}

\* the null of JavaScript: a value that is no string
Null == <<"null">>

\* /^\d+$/ : one or more ASCII digits and nothing else
MatchDigits(s) == Len(s) > 0 /\ \A i \in 1..Len(s) : s[i] \in Digit

Min(S) == CHOOSE x \in S : \A y \in S : x <= y

Max(S) == CHOOSE x \in S : \A y \in S : x >= y

\* the number of leading characters of s that are in cs
SpanIn(s, cs) ==
    LET out == {j \in 1..Len(s) : s[j] \notin cs}
    IN  IF out = {} THEN Len(s) ELSE Min(out) - 1

\* the number of trailing characters of s that are in cs
SpanBack(s, cs) ==
    LET out == {j \in 1..Len(s) : s[j] \notin cs}
    IN  IF out = {} THEN Len(s) ELSE Len(s) - Max(out)

\* s without its leading blanks
TrimLeft(s) == SubSeq(s, SpanIn(s, WhiteSpace) + 1, Len(s))

\* s without its trailing blanks
TrimRight(s) == SubSeq(s, 1, Len(s) - SpanBack(s, WhiteSpace))

\* the longest prefix of s made of characters of set cs
PrefixIn(s, cs) == SubSeq(s, 1, SpanIn(s, cs))

----------------------------------------------------------------------------
(* Arbitrary-precision naturals: big-endian digit sequences.  The loops  *)
(* over a digit sequence split it in halves, which keeps the evaluation  *)
(* depth logarithmic in its length.                                      *)

\* m without its leading zeros
StripZeros(m) == SubSeq(m, SpanIn(m, {0}) + 1, Len(m))

\* the digits of a machine integer
RECURSIVE IntToMag(_)
IntToMag(n) == IF n = 0 THEN <<>> ELSE Append(IntToMag(n \div 10), n % 10)

\* the machine integer of the digits m[lo..hi] in radix b
RECURSIVE RangeVal(_, _, _, _)
RangeVal(m, b, lo, hi) ==
    IF lo > hi THEN 0
    ELSE IF lo = hi THEN m[lo]
    ELSE LET mid == (lo + hi) \div 2
         IN  RangeVal(m, b, lo, mid) * b^(hi - mid) + RangeVal(m, b, mid + 1, hi)

\* the machine integer of a magnitude of at most 9 digits
MagToInt(m) == RangeVal(m, 10, 1, Len(m))

\* e, once v has been evaluated: fixes the order of evaluation where the
\* natural one would nest the evaluations of a whole carry chain
Strict(v, e) == IF v = v THEN e ELSE e

\* the machine integer of the digits m[lo..hi], at most three of them
Upto3(m, lo, hi) ==
    m[hi] + (IF hi > lo THEN 10 * m[hi - 1] ELSE 0)
          + (IF hi > lo + 1 THEN 100 * m[hi - 2] ELSE 0)

\* the n low digits of a machine integer
LowDigits(v, n) == [i \in 1..n |-> (v \div 10^(n - i)) % 10]

\* the digits lo..hi of m * k, from the right, with a carry coming in;
\* up to three digits are multiplied in one step
RECURSIVE MulRange(_, _, _, _, _)
MulRange(m, k, lo, hi, carry) ==
    IF lo > hi THEN [d |-> <<>>, c |-> carry]
    ELSE IF hi - lo < 3
    THEN LET cur == Upto3(m, lo, hi) * k + carry
         IN  [d |-> LowDigits(cur, hi - lo + 1), c |-> cur \div 10^(hi - lo + 1)]
    ELSE LET mid == (lo + hi) \div 2
             right == MulRange(m, k, mid + 1, hi, carry)
             left == MulRange(m, k, lo, mid, right.c)
         IN  Strict(right, [d |-> left.d \o right.d, c |-> left.c])

\* m * k + a, for machine integers k, a
MulAdd(m, k, a) ==
    LET r == MulRange(m, k, 1, Len(m), a)
    IN  StripZeros(IntToMag(r.c) \o r.d)

\* the digits lo..hi of the quotient of m by k, with a remainder coming in
RECURSIVE DivRange(_, _, _, _, _)
DivRange(m, k, lo, hi, rem) ==
    IF lo > hi THEN [q |-> <<>>, r |-> rem]
    ELSE IF lo = hi
    THEN LET cur == rem * 10 + m[lo]
         IN  [q |-> <<cur \div k>>, r |-> cur % k]
    ELSE LET mid == (lo + hi) \div 2
             left == DivRange(m, k, lo, mid, rem)
             right == DivRange(m, k, mid + 1, hi, left.r)
         IN  [q |-> left.q \o right.q, r |-> right.r]

\* quotient and remainder of m by a machine integer k
DivRem(m, k) ==
    LET d == DivRange(m, k, 1, Len(m), 0)
    IN  [q |-> StripZeros(d.q), r |-> d.r]

\* base-2 digits are converted a limb of LimbBits digits at a time
LimbBits == 16

\* the LimbBits base-2 digits of a machine integer below 2^LimbBits
LimbToBits(n) == [i \in 1..LimbBits |-> (n \div 2^(LimbBits - i)) % 2]

\* the base-2 digits of a magnitude, most significant first, in whole limbs
RECURSIVE MagToLimbs(_)
MagToLimbs(m) ==
    IF m = <<>> THEN <<>>
    ELSE LET d == DivRem(m, 2^LimbBits) IN MagToLimbs(d.q) \o LimbToBits(d.r)

\* the base-2 digits of a magnitude, most significant first (<<>> for zero)
MagToBits(m) == StripZeros(MagToLimbs(m))

\* the magnitude of the base-2 digits b[1..hi]
RECURSIVE BitsToMagUpTo(_, _)
BitsToMagUpTo(b, hi) ==
    IF hi <= 0 THEN <<>>
    ELSE LET lo == Max({1, hi - LimbBits + 1})
         IN  MulAdd(BitsToMagUpTo(b, lo - 1), 2^(hi - lo + 1),
                    RangeVal(b, 2, lo, hi))

\* the magnitude of a sequence of base-2 digits
BitsToMag(b) == BitsToMagUpTo(b, Len(b))

\* a < b on magnitudes
MagLess(a, b) ==
    IF Len(a) # Len(b) THEN Len(a) < Len(b)
    ELSE LET diff == {i \in 1..Len(a) : a[i] # b[i]}
         IN  diff # {} /\ a[Min(diff)] < b[Min(diff)]

\* the decimal digits of a string of digits, as a magnitude
StrToMag(s) == StripZeros([i \in 1..Len(s) |-> DigitVal(s[i])])

\* the characters of a sequence of digits
DigitsToStr(m) == [i \in 1..Len(m) |-> DigitChars[m[i] + 1]]

----------------------------------------------------------------------------
(* The JavaScript built-ins the code calls *)

\* BigInt(string): StringToBigInt; blanks are trimmed, the empty string is
\* 0n, a sign may precede decimal digits, anything else is a SyntaxError
StringToBigInt(s) ==
    LET t == TrimRight(TrimLeft(s))
        signed == t # <<>> /\ t[1] \in {"-", "+"}
        body == IF signed THEN Tail(t) ELSE t
    IN  IF t = <<>> THEN [err |-> "none", neg |-> FALSE, mag |-> <<>>]
        ELSE IF MatchDigits(body)
        THEN [err |-> "none",
              neg |-> (signed /\ t[1] = "-" /\ StrToMag(body) # <<>>),
              mag |-> StrToMag(body)]
        ELSE [err |-> "SyntaxError", neg |-> FALSE, mag |-> <<>>]

\* BigInt.prototype.toString(): radix 10
BigIntToString(b) ==
    (IF b.neg THEN <<"-">> ELSE <<>>)
        \o (IF b.mag = <<>> THEN <<"0">> ELSE DigitsToStr(b.mag))

\* BigInt.prototype.toString(2)
BigIntToString2(b) ==
    (IF b.neg THEN <<"-">> ELSE <<>>)
        \o (IF b.mag = <<>> THEN <<"0">> ELSE DigitsToStr(MagToBits(b.mag)))

\* the significand width of an IEEE-754 double
MantissaBits == 53

\* add one to a sequence of base-2 digits
IncBits(b) ==
    LET zeros == {i \in 1..Len(b) : b[i] = 0}
    IN  IF zeros = {} THEN <<1>> \o [i \in 1..Len(b) |-> 0]
        ELSE SubSeq(b, 1, Max(zeros) - 1) \o <<1>>
                 \o [i \in 1..(Len(b) - Max(zeros)) |-> 0]

\* the Number nearest to an integer given in base 2 (ties to even), again
\* as base-2 digits
RoundToDouble(bits) ==
    LET b == StripZeros(bits)
    IN  IF Len(b) <= MantissaBits THEN b
        ELSE LET top == SubSeq(b, 1, MantissaBits)
                 rest == SubSeq(b, MantissaBits + 1, Len(b))
                 sticky == \E i \in 2..Len(rest) : rest[i] = 1
                 up == rest[1] = 1 /\ (sticky \/ top[MantissaBits] = 1)
             IN  (IF up THEN IncBits(top) ELSE top)
                     \o [i \in 1..Len(rest) |-> 0]

\* parseInt(string, 2): blanks and a sign are skipped, the longest prefix
\* of base-2 digits is read, the rest is ignored; NaN without such a prefix
ParseInt2(s) ==
    LET t == TrimLeft(s)
        signed == t # <<>> /\ t[1] \in {"-", "+"}
        body == IF signed THEN Tail(t) ELSE t
        pre == PrefixIn(body, BinDigit)
    IN  IF pre = <<>> THEN [nan |-> TRUE, neg |-> FALSE, bits |-> <<>>]
        ELSE [nan |-> FALSE,
              neg |-> (signed /\ t[1] = "-"),
              bits |-> RoundToDouble([i \in 1..Len(pre) |-> DigitVal(pre[i])])]

\* BigInt(number): NumberToBigInt; NaN is a RangeError, -0 is 0n
NumberToBigInt(d) ==
    IF d.nan THEN [err |-> "RangeError", neg |-> FALSE, mag |-> <<>>]
    ELSE [err |-> "none",
          neg |-> (d.neg /\ d.bits # <<>>),
          mag |-> BitsToMag(d.bits)]

----------------------------------------------------------------------------
(* Results of a call: the value returned, or the exception thrown *)

Ok(v) == [err |-> "none", val |-> v]

Throw(e) == [err |-> e, val |-> Null]

----------------------------------------------------------------------------
(* DiffieHellman.Constants *)

FORMAT_BINARY == "binary"

FORMAT_NUMBER == "number"

FORMAT_BTWOC == "btwoc"

Formats == {FORMAT_NUMBER, FORMAT_BINARY, FORMAT_BTWOC}

----------------------------------------------------------------------------
(* helpers/index.js *)

\* isset: Boolean(variable); null and the empty string are falsy, every
\* other string (also "0") is truthy
isset(variable) == variable # Null /\ variable # <<>>

\* the largest BigInt of the engine, in bits: results beyond it are a
\* RangeError ("Maximum BigInt size exceeded")
kMaxLengthBits == 1073741824

\* the most factors of base whose product a multiplication step can take
StepOf(base) ==
    Max({j \in 1..27 : \A i \in 1..(j - 1) : base^i <= 2097152 \div base})

\* base ** e as a magnitude, for machine integers base >= 2 and e: the
\* product is built StepOf(base) factors at a time
RECURSIVE PowMag(_, _)
PowMag(base, e) ==
    IF e = 0 THEN <<1>>
    ELSE LET j == Min({e, StepOf(base)})
             r == PowMag(base, e - j)
         IN  Strict(r, MulAdd(r, base^j, 0))

\* base ** e for a base >= 2 and an exponent below kMaxLengthBits: a
\* result of more than kMaxLengthBits bits is a RangeError
ExponentiateInt(base, e, log2) ==
    IF e >= (kMaxLengthBits + log2 - 1) \div log2
    THEN [err |-> "RangeError", mag |-> <<>>]
    ELSE [err |-> "none", mag |-> PowMag(base, e)]

\* BigInt exponentiation base ** exp of non-negative BigInts: bases 0 and 1
\* are returned as they are; for a base >= 2 an exponent of kMaxLengthBits
\* or more is a RangeError
Exponentiate(base, exp) ==
    IF exp.mag = <<>> THEN [err |-> "none", mag |-> <<1>>]
    ELSE IF base.mag = <<>> \/ base.mag = <<1>>
    THEN [err |-> "none", mag |-> base.mag]
    ELSE IF ~MagLess(exp.mag, IntToMag(kMaxLengthBits))
    THEN [err |-> "RangeError", mag |-> <<>>]
    ELSE ExponentiateInt(MagToInt(base.mag), MagToInt(exp.mag),
                         Len(MagToBits(base.mag)) - 1)

\* pw % m: a zero modulus is a RangeError (division by zero); a power
\* below the modulus is its own remainder
Remainder(pw, m) ==
    IF pw.err # "none" THEN Throw(pw.err)
    ELSE IF m.mag = <<>> THEN Throw("RangeError")
    ELSE IF MagLess(pw.mag, m.mag) THEN Ok([neg |-> FALSE, mag |-> pw.mag])
    ELSE Ok([neg |-> FALSE, mag |-> IntToMag(DivRem(pw.mag, MagToInt(m.mag)).r)])

\* b ** e % m on BigInts, each the outcome of BigInt(string)
PowModBigInt(b, e, m) ==
    IF b.err # "none" THEN Throw(b.err)
    ELSE IF e.err # "none" THEN Throw(e.err)
    ELSE IF m.err # "none" THEN Throw(m.err)
    ELSE IF e.neg THEN Throw("RangeError")
    ELSE Remainder(Exponentiate(b, e), m)

\* powMod with the product in place of the power: num * exp % mod
powModTimes(num, exp, mod) ==
    Remainder([err |-> "none",
               mag |-> MulAdd(StringToBigInt(num).mag,
                              MagToInt(StringToBigInt(exp).mag), 0)],
              StringToBigInt(mod))

\* powMod without the reduction: BigInt(num) ** BigInt(exp)
powModUnreduced(num, exp, mod) ==
    IF StringToBigInt(num).err # "none" THEN Throw(StringToBigInt(num).err)
    ELSE IF StringToBigInt(exp).err # "none" THEN Throw(StringToBigInt(exp).err)
    ELSE IF StringToBigInt(mod).err # "none" THEN Throw(StringToBigInt(mod).err)
    ELSE IF StringToBigInt(exp).neg THEN Throw("RangeError")
    ELSE IF Exponentiate(StringToBigInt(num), StringToBigInt(exp)).err # "none"
    THEN Throw("RangeError")
    ELSE Ok([neg |-> FALSE,
             mag |-> Exponentiate(StringToBigInt(num), StringToBigInt(exp)).mag])

\* powMod: BigInt(num) ** BigInt(exp) % BigInt(mod); the whole power is
\* built first and reduced afterwards
powMod(num, exp, mod) ==
    PowModBigInt(StringToBigInt(num), StringToBigInt(exp), StringToBigInt(mod))

\* random(10000000000000, 100000000000000): an integer of
\* [10^13 + 1, 10^14]; these are the draws the model takes
RandomDraws ==
    { <<"1","0","0","0","0","0","0","0","0","0","0","0","0","1">>,
      <<"3","1","4","1","5","9","2","6","5","3","5","8","9","7">>,
      <<"1","0","0","0","0","0","0","0","0","0","0","0","0","0","0">> }

\* the number of chunks rounded up: Math.ceil(length / 14)
ChunkCountCeil(length) == (length + 13) \div 14

\* the number of chunks randomBigInt(length) draws: Math.round(length / 14)
ChunkCount(length) == (length + 7) \div 14

\* the draws randomBigInt(length) may take: one per chunk
RandomSeqs(length) == [1..ChunkCount(length) -> RandomDraws]

RECURSIVE Concat(_, _)
Concat(draws, i) ==
    IF i > Len(draws) THEN <<>> ELSE draws[i] \o Concat(draws, i + 1)

\* randomBigInt(length) with the draws rnd: the chunks are concatenated as
\* strings and the result is read as a BigInt
randomBigInt(length, rnd) == StringToBigInt(Concat(rnd, 1))

----------------------------------------------------------------------------
(* DiffieHellman.js: convert *)

\* output switch whose btwoc case pads the digits with a leading zero
RenderPadded(n, outputFormat) ==
    IF n.err # "none" THEN Throw(n.err)
    ELSE IF outputFormat = FORMAT_BTWOC THEN Ok(<<"0">> \o BigIntToString2(n))
    ELSE IF outputFormat = FORMAT_BINARY THEN Ok(BigIntToString2(n))
    ELSE Ok(BigIntToString(n))

\* the second switch of convert, on a BigInt n (or the exception that
\* making it threw): BigInt(number).toString(2) or number.toString()
Render(n, outputFormat) ==
    IF n.err # "none" THEN Throw(n.err)
    ELSE IF outputFormat \in {FORMAT_BINARY, FORMAT_BTWOC} THEN Ok(BigIntToString2(n))
    ELSE Ok(BigIntToString(n))

\* with equal formats the input is returned; binary and btwoc input is
\* read by parseInt(number, 2); number input is left a string, which the
\* output switch (binary or btwoc then) hands to BigInt
convert(number, inputFormat, outputFormat) ==
    IF inputFormat = outputFormat THEN Ok(number)
    ELSE IF inputFormat \in {FORMAT_BINARY, FORMAT_BTWOC}
    THEN Render(NumberToBigInt(ParseInt2(number)), outputFormat)
    ELSE Render(StringToBigInt(number), outputFormat)

----------------------------------------------------------------------------
(* DiffieHellman.js: the session.  A method is an operator from the      *)
(* fields before the call (and its arguments) to [s, err, val]: the       *)
(* fields after the call, the exception thrown ("none" when it returns)   *)
(* and the value returned.                                                *)

\* the fields of a new object, before the constructor body runs
Blank ==
    [prime |-> Null, generator |-> Null, privateKey |-> Null,
     publicKey |-> Null, secretKey |-> Null]

\* the value of a fluent return: the session itself
This == <<"this">>

Return(s, v) == [s |-> s, err |-> "none", val |-> v]

Raise(s, e) == [s |-> s, err |-> e, val |-> Null]

\* number < k for a string of digits: the string is compared as a Number
NumberLess(number, k) == MagLess(StrToMag(number), IntToMag(k))

\* the least prime setPrime accepts
MinPrime == 11

\* the least generator setGenerator accepts
MinGenerator == 2

\* the outcome c of a convert call, as the outcome of a getter
Converted(s, c) == [s |-> s, err |-> c.err, val |-> c.val]

\* Store without the match against /^\d+$/
StoreUnmatched(s, field, c) ==
    IF c.err # "none" THEN Raise(s, c.err)
    ELSE Return([s EXCEPT ![field] = c.val], This)

\* the tail of setPrivateKey and setPublicKey: the converted number c must
\* match /^\d+$/ and is stored in the field
Store(s, field, c) ==
    IF c.err # "none" THEN Raise(s, c.err)
    ELSE IF ~MatchDigits(c.val) THEN Raise(s, "TypeError")
    ELSE Return([s EXCEPT ![field] = c.val], This)

\* setPrime that drops the keys derived under the old prime
setPrimeResetting(s, number) ==
    IF ~MatchDigits(number) \/ NumberLess(number, MinPrime)
    THEN Raise(s, "TypeError")
    ELSE Return([s EXCEPT !.prime = number, !.publicKey = Null, !.secretKey = Null],
                This)

\* setPrime with the bound off by one: number <= 11
setPrimeInclusive(s, number) ==
    IF ~MatchDigits(number) \/ NumberLess(number, MinPrime + 1)
    THEN Raise(s, "TypeError")
    ELSE Return([s EXCEPT !.prime = number], This)

setPrime(s, number) ==
    IF ~MatchDigits(number) \/ NumberLess(number, MinPrime)
    THEN Raise(s, "TypeError")
    ELSE Return([s EXCEPT !.prime = number], This)

getPrime(s, format) ==
    IF ~isset(s.prime) THEN Raise(s, "Error")
    ELSE Converted(s, convert(s.prime, FORMAT_NUMBER, format))

\* setGenerator that assigns to the field of setPrime
setGeneratorMisassigned(s, number) ==
    IF ~MatchDigits(number) \/ NumberLess(number, MinGenerator)
    THEN Raise(s, "TypeError")
    ELSE Return([s EXCEPT !.prime = number], This)

setGenerator(s, number) ==
    IF ~MatchDigits(number) \/ NumberLess(number, MinGenerator)
    THEN Raise(s, "TypeError")
    ELSE Return([s EXCEPT !.generator = number], This)

getGenerator(s, format) ==
    IF ~isset(s.generator) THEN Raise(s, "Error")
    ELSE Converted(s, convert(s.generator, FORMAT_NUMBER, format))

setPrivateKey(s, number, format) ==
    Store(s, "privateKey", convert(number, format, FORMAT_NUMBER))

\* hasPrivateKey reading a field that does not exist (undefined is unset)
hasPrivateKeyMisnamed(s) == isset(Null)

hasPrivateKey(s) == isset(s.privateKey)

\* generatePrivateKey with the random draws rnd
generatePrivateKey(s, rnd) == BigIntToString(randomBigInt(Len(s.prime), rnd))

\* the draws a call that reads the private key may take
Draws(s) == IF hasPrivateKey(s) THEN {<<>>} ELSE RandomSeqs(Len(s.prime))

\* the private key is generated and set when there is none
EnsurePrivateKey(s, rnd) ==
    IF hasPrivateKey(s) THEN Return(s, This)
    ELSE setPrivateKey(s, generatePrivateKey(s, rnd), FORMAT_NUMBER)

\* the return of getPrivateKey, after g has made sure of the key
ReadPrivateKey(g, format) ==
    IF g.err # "none" THEN g
    ELSE Converted(g.s, convert(g.s.privateKey, FORMAT_NUMBER, format))

\* getPrivateKey that returns a generated key without setting it
getPrivateKeyUnstored(s, format, rnd) ==
    IF hasPrivateKey(s)
    THEN Converted(s, convert(s.privateKey, FORMAT_NUMBER, format))
    ELSE Converted(s, convert(generatePrivateKey(s, rnd), FORMAT_NUMBER, format))

getPrivateKey(s, format, rnd) == ReadPrivateKey(EnsurePrivateKey(s, rnd), format)

setPublicKey(s, number, format) ==
    Store(s, "publicKey", convert(number, format, FORMAT_NUMBER))

\* getPublicKey without the test for a public key
getPublicKeyUnchecked(s, format) ==
    Converted(s, convert(s.publicKey, FORMAT_NUMBER, format))

getPublicKey(s, format) ==
    IF s.publicKey = Null THEN Raise(s, "Error")
    ELSE Converted(s, convert(s.publicKey, FORMAT_NUMBER, format))

\* getSharedSecretKey that keeps the converted key in the field
getSharedSecretKeyStoring(s, format) ==
    IF ~isset(s.secretKey) THEN Raise(s, "Error")
    ELSE IF convert(s.secretKey, FORMAT_NUMBER, format).err # "none"
    THEN Raise(s, convert(s.secretKey, FORMAT_NUMBER, format).err)
    ELSE Return([s EXCEPT !.secretKey = convert(s.secretKey, FORMAT_NUMBER, format).val],
                convert(s.secretKey, FORMAT_NUMBER, format).val)

getSharedSecretKey(s, format) ==
    IF ~isset(s.secretKey) THEN Raise(s, "Error")
    ELSE Converted(s, convert(s.secretKey, FORMAT_NUMBER, format))

\* powMod(base, privateKey, prime) on the outcomes of reading the base
\* (b), the private key (k) and the prime (p)
PowModOfReads(s, b, k, p) ==
    IF b.err # "none" THEN Raise(s, b.err)
    ELSE IF k.err # "none" THEN Raise(k.s, k.err)
    ELSE IF p.err # "none" THEN Raise(k.s, p.err)
    ELSE Converted(k.s, powMod(b.val, k.val, p.val))

\* powMod(base, this.getPrivateKey(), this.getPrime()): the arguments are
\* evaluated left to right, so the prime is read from the session that
\* reading the private key leaves
PowModOfSession(s, b, k) == PowModOfReads(s, b, k, getPrime(k.s, FORMAT_NUMBER))

\* the tail of generateKeys: setPublicKey(powMod(...).toString())
PublishKey(pm) ==
    IF pm.err # "none" THEN pm
    ELSE setPublicKey(pm.s, BigIntToString(pm.val), FORMAT_NUMBER)

generateKeys(s, rnd) ==
    PublishKey(PowModOfSession(s, getGenerator(s, FORMAT_NUMBER),
                               getPrivateKey(s, FORMAT_NUMBER, rnd)))

\* the tail of computeSecretKey: the power is stored and read back
KeepSecret(pm, secretKeyFormat) ==
    IF pm.err # "none" THEN pm
    ELSE getSharedSecretKey([pm.s EXCEPT !.secretKey = BigIntToString(pm.val)],
                            secretKeyFormat)

\* computeSecretKey once the remote key is converted (c): it must match
\* /^\d+$/ before the private key is read
SecretOf(s, c, secretKeyFormat, rnd) ==
    IF c.err # "none" THEN Raise(s, c.err)
    ELSE IF ~MatchDigits(c.val) THEN Raise(s, "TypeError")
    ELSE KeepSecret(PowModOfSession(s, c, getPrivateKey(s, FORMAT_NUMBER, rnd)),
                    secretKeyFormat)

computeSecretKey(s, publicKey, publicKeyFormat, secretKeyFormat, rnd) ==
    SecretOf(s, convert(publicKey, publicKeyFormat, FORMAT_NUMBER),
             secretKeyFormat, rnd)

\* the constructor after setPrime (outcome a): setGenerator
ConstructGenerator(a, generator) ==
    IF a.err # "none" THEN a ELSE setGenerator(a.s, generator)

\* the constructor after setGenerator (outcome b): setPrivateKey when a
\* private key is given (Null: the default, none)
ConstructKey(b, privateKey, privateKeyFormat) ==
    IF b.err # "none" \/ privateKey = Null THEN b
    ELSE setPrivateKey(b.s, privateKey, privateKeyFormat)

\* a constructor that throws leaves no session
NoSessionOnThrow(r) == IF r.err # "none" THEN Raise(Blank, r.err) ELSE r

\* new DiffieHellman(prime, generator, privateKey, privateKeyFormat)
construct(prime, generator, privateKey, privateKeyFormat) ==
    NoSessionOnThrow(
        ConstructKey(ConstructGenerator(setPrime(Blank, prime), generator),
                     privateKey, privateKeyFormat))

----------------------------------------------------------------------------
(* The state: the sessions of the two parties (sess), the last call made  *)
(* and its outcome (last), what has been called on each session so far    *)
(* (hist), and the value a chain of convert calls has reached (cv).       *)

Party == {"alice", "bob"}

NoCall ==
    [party |-> "none", op |-> "none", arg |-> Null, fmt |-> FORMAT_NUMBER,
     ofmt |-> FORMAT_NUMBER, err |-> "none", val |-> Null]

NoHist ==
    [generated |-> FALSE, computed |-> FALSE, published |-> FALSE,
     lazy |-> FALSE, run |-> Null, again |-> FALSE]

CvIdle == [orig |-> Null, arg |-> Null, val |-> Null, err |-> "none", trail |-> <<>>]

\* the decimal string of a machine integer
Dec(n) == BigIntToString([neg |-> FALSE, mag |-> IntToMag(n)])

Constructed(a) == sess[a].prime # Null

Setters == {"setPrime", "setGenerator", "setPrivateKey", "setPublicKey"}

\* what has been called on the session: generateKeys and computeSecretKey
\* ever; whether setPublicKey has returned; whether the private key is
\* still left to lazy generation; the public key of the last generateKeys
\* that returned since the last setter, and whether one returned before it
Record(h, op, r) ==
    [generated |-> h.generated \/ op = "generateKeys",
     computed |-> h.computed \/ op = "computeSecretKey",
     published |-> h.published \/ (op = "setPublicKey" /\ r.err = "none"),
     lazy |-> h.lazy /\ ~(op = "setPrivateKey" /\ r.err = "none"),
     run |-> IF op \in Setters THEN Null
             ELSE IF op = "generateKeys" /\ r.err = "none" THEN r.s.publicKey
             ELSE h.run,
     again |-> IF op \in Setters THEN FALSE
               ELSE IF op = "generateKeys" /\ r.err = "none" THEN h.run # Null
               ELSE h.again]

\* the call op(arg, fmt, ofmt) on the session of a, with the outcome r
Call(a, op, arg, fmt, ofmt, r) ==
    /\ sess' = [sess EXCEPT ![a] = r.s]
    /\ last' = [party |-> a, op |-> op, arg |-> arg, fmt |-> fmt,
                ofmt |-> ofmt, err |-> r.err, val |-> r.val]
    /\ hist' = [hist EXCEPT ![a] = Record(hist[a], op, r)]
    /\ UNCHANGED cv

Construct(a, prime, generator, privateKey, format) ==
    /\ ~Constructed(a)
    /\ LET r == construct(prime, generator, privateKey, format)
       IN  /\ sess' = [sess EXCEPT ![a] = r.s]
           /\ last' = [party |-> a, op |-> "construct",
                       arg |-> <<prime, generator, privateKey>>,
                       fmt |-> format, ofmt |-> FORMAT_NUMBER,
                       err |-> r.err, val |-> r.val]
           /\ hist' = [hist EXCEPT ![a] =
                          [NoHist EXCEPT !.lazy = (r.err = "none" /\ privateKey = Null)]]
    /\ UNCHANGED cv

SetPrime(a, number) ==
    /\ Constructed(a)
    /\ Call(a, "setPrime", number, FORMAT_NUMBER, FORMAT_NUMBER, setPrime(sess[a], number))

GetPrime(a, format) ==
    /\ Constructed(a)
    /\ Call(a, "getPrime", Null, FORMAT_NUMBER, format, getPrime(sess[a], format))

SetGenerator(a, number) ==
    /\ Constructed(a)
    /\ Call(a, "setGenerator", number, FORMAT_NUMBER, FORMAT_NUMBER,
            setGenerator(sess[a], number))

GetGenerator(a, format) ==
    /\ Constructed(a)
    /\ Call(a, "getGenerator", Null, FORMAT_NUMBER, format, getGenerator(sess[a], format))

SetPrivateKey(a, number, format) ==
    /\ Constructed(a)
    /\ Call(a, "setPrivateKey", number, format, FORMAT_NUMBER,
            setPrivateKey(sess[a], number, format))

GetPrivateKey(a, format) ==
    /\ Constructed(a)
    /\ \E rnd \in Draws(sess[a]) :
          Call(a, "getPrivateKey", Null, FORMAT_NUMBER, format,
               getPrivateKey(sess[a], format, rnd))

GenerateKeys(a) ==
    /\ Constructed(a)
    /\ \E rnd \in Draws(sess[a]) :
          Call(a, "generateKeys", Null, FORMAT_NUMBER, FORMAT_NUMBER,
               generateKeys(sess[a], rnd))

SetPublicKey(a, number, format) ==
    /\ Constructed(a)
    /\ Call(a, "setPublicKey", number, format, FORMAT_NUMBER,
            setPublicKey(sess[a], number, format))

GetPublicKey(a, format) ==
    /\ Constructed(a)
    /\ Call(a, "getPublicKey", Null, FORMAT_NUMBER, format, getPublicKey(sess[a], format))

ComputeSecretKey(a, publicKey, publicKeyFormat, secretKeyFormat) ==
    /\ Constructed(a)
    /\ \E rnd \in Draws(sess[a]) :
          Call(a, "computeSecretKey", publicKey, publicKeyFormat, secretKeyFormat,
               computeSecretKey(sess[a], publicKey, publicKeyFormat,
                                secretKeyFormat, rnd))

GetSharedSecretKey(a, format) ==
    /\ Constructed(a)
    /\ Call(a, "getSharedSecretKey", Null, FORMAT_NUMBER, format,
            getSharedSecretKey(sess[a], format))

----------------------------------------------------------------------------
(* Spec: one session and every public operation on it *)

\* explicit private keys are the decimal strings of 0..MaxPrivateKey
MaxPrivateKey == 2

\* a private key of 11 decimal digits: an exponent beyond any BigInt
HugeKey == Dec(2) \o [i \in 1..10 |-> "0"]

\* a small prime, a prime of 7 digits (the least length for which a
\* private key is drawn at random), and what setPrime refuses
PrimeArgs == {Dec(11), Dec(1000003), Dec(10), <<"a">>}

GeneratorArgs == {Dec(2), Dec(1)}

\* private keys with the format they are declared in
PrivateKeyArgs ==
    {<<Dec(n), FORMAT_NUMBER>> : n \in 0..MaxPrivateKey}
        \cup {<<HugeKey, FORMAT_NUMBER>>, <<<<"-", "2">>, FORMAT_NUMBER>>,
              <<<<"1", "0">>, FORMAT_BINARY>>, <<<<"1", "0", "a">>, FORMAT_BTWOC>>,
              <<<<"a">>, FORMAT_BINARY>>, <<<<"-", "1", "0">>, FORMAT_BTWOC>>}

\* remote public keys, 0 and 13 (above the small prime, below the other),
\* with the format they are declared in and the format asked for the secret
RemoteKeyArgs ==
    {<<Dec(0), FORMAT_NUMBER, FORMAT_NUMBER>>,
     <<Dec(13), FORMAT_NUMBER, FORMAT_NUMBER>>,
     <<Dec(13), FORMAT_NUMBER, FORMAT_BINARY>>,
     <<<<"a">>, FORMAT_NUMBER, FORMAT_NUMBER>>,
     <<<<"1", "1", "0", "1">>, FORMAT_BINARY, FORMAT_BTWOC>>,
     <<<<"1", "1", "0", "1", "2">>, FORMAT_BTWOC, FORMAT_NUMBER>>,
     <<<<"-", "1">>, FORMAT_BINARY, FORMAT_NUMBER>>}

\* what setPublicKey is called with
PublicKeyArgs ==
    {<<Dec(4), FORMAT_NUMBER>>, <<<<"1", "0", "0">>, FORMAT_BINARY>>,
     <<<<"a">>, FORMAT_NUMBER>>, <<<<"a">>, FORMAT_BTWOC>>}

Init ==
    /\ sess = [a \in Party |-> Blank]
    /\ last = NoCall
    /\ hist = [a \in Party |-> NoHist]
    /\ cv = CvIdle

Next ==
    \/ \E p \in PrimeArgs, g \in GeneratorArgs, k \in PrivateKeyArgs \cup {<<Null, FORMAT_NUMBER>>} :
          Construct("alice", p, g, k[1], k[2])
    \/ \E p \in PrimeArgs : SetPrime("alice", p)
    \/ \E f \in Formats : GetPrime("alice", f)
    \/ \E g \in GeneratorArgs : SetGenerator("alice", g)
    \/ \E f \in Formats : GetGenerator("alice", f)
    \/ \E k \in PrivateKeyArgs : SetPrivateKey("alice", k[1], k[2])
    \/ \E f \in Formats : GetPrivateKey("alice", f)
    \/ GenerateKeys("alice")
    \/ \E k \in PublicKeyArgs : SetPublicKey("alice", k[1], k[2])
    \/ \E f \in Formats : GetPublicKey("alice", f)
    \/ \E k \in RemoteKeyArgs : ComputeSecretKey("alice", k[1], k[2], k[3])
    \/ \E f \in Formats : GetSharedSecretKey("alice", f)

Spec == Init /\ [][Next]_vars

----------------------------------------------------------------------------
(* SpecExchange: two sessions built with the same prime and generator,   *)
(* each generating its keys and computing the secret from the public key *)
(* of the other, as the test of the repository does                       *)

ExchangePrimes == {Dec(563), Dec(23)}

ExchangeGenerators == {Dec(5)}

ExchangeKeys == {Dec(n) : n \in (0..MaxPrivateKey) \cup {9, 14}}

\* a.computeSecretKey(b.getPublicKey())
Exchange(a, b) ==
    /\ a # b
    /\ Constructed(a) /\ Constructed(b)
    /\ getPublicKey(sess[b], FORMAT_NUMBER).err = "none"
    /\ ComputeSecretKey(a, getPublicKey(sess[b], FORMAT_NUMBER).val,
                        FORMAT_NUMBER, FORMAT_NUMBER)

InitExchange ==
    /\ \E p \in ExchangePrimes, g \in ExchangeGenerators, ka \in ExchangeKeys,
          kb \in ExchangeKeys :
          sess = [a \in Party |->
                     construct(p, g, IF a = "alice" THEN ka ELSE kb, FORMAT_NUMBER).s]
    /\ last = NoCall
    /\ hist = [a \in Party |-> NoHist]
    /\ cv = CvIdle

NextExchange ==
    \/ \E a \in Party : GenerateKeys(a)
    \/ \E a \in Party, b \in Party : Exchange(a, b)

SpecExchange == InitExchange /\ [][NextExchange]_vars

----------------------------------------------------------------------------
(* Inputs for the specifications of pure functions: every string of at   *)
(* most MaxStrLen characters of an alphabet, and some longer ones         *)

MaxStrLen == 2

Alphabet == {"0", "1", "2", "-", "a", " "}

Strings == UNION {[1..k -> Alphabet] : k \in 0..MaxStrLen}

\* 2^n as a magnitude
Pow2Mag(n) == BitsToMag(<<1>> \o [i \in 1..n |-> 0])

\* the naturals checked around 2^MantissaBits reach 2^MantissaBits + MaxExcess
MaxExcess == 3

\* decimal strings of the naturals around 2^MantissaBits, where a Number
\* stops holding every integer
NearDouble ==
    {DigitsToStr(MulAdd(Pow2Mag(MantissaBits - 1), 2, k - 1)) : k \in 0..(MaxExcess + 1)}

----------------------------------------------------------------------------
(* SpecValidate: one string tried as the prime and as the generator, in  *)
(* the constructor and in the setters                                     *)

ValidateInputs == Strings \cup {Dec(1000003), <<"0", "1", "1">>, <<"0", "0", "2">>, HugeKey}

\* the private keys the constructor is given: none, a natural, no number
ValidateKeys == {Null, Dec(2), <<"a">>}

InitValidate ==
    /\ sess = [a \in Party |-> Blank]
    /\ last = NoCall
    /\ hist = [a \in Party |-> NoHist]
    /\ cv \in {[CvIdle EXCEPT !.orig = x] : x \in ValidateInputs}

NextValidate ==
    \/ \E k \in ValidateKeys : Construct("alice", cv.orig, Dec(2), k, FORMAT_NUMBER)
    \/ \E k \in ValidateKeys : Construct("alice", Dec(11), cv.orig, k, FORMAT_NUMBER)
    \/ \E k \in ValidateKeys : Construct("alice", cv.orig, cv.orig, k, FORMAT_NUMBER)
    \/ SetPrime("alice", cv.orig)
    \/ SetGenerator("alice", cv.orig)

SpecValidate == InitValidate /\ [][NextValidate]_vars

----------------------------------------------------------------------------
(* SpecConvert: convert applied to a string, and again to its result *)

ConvertInputs == Strings \cup NearDouble \cup {Dec(n) : n \in {3, 10, 12, 255}}

\* convert(cv.val, inputFormat, outputFormat), at most twice in a row
Convert(inputFormat, outputFormat) ==
    /\ cv.err = "none"
    /\ Len(cv.trail) < 2
    /\ LET r == convert(cv.val, inputFormat, outputFormat)
       IN  cv' = [orig |-> cv.orig, arg |-> cv.val, val |-> r.val, err |-> r.err,
                  trail |-> Append(cv.trail, <<inputFormat, outputFormat>>)]
    /\ UNCHANGED <<sess, last, hist>>

InitConvert ==
    /\ sess = [a \in Party |-> Blank]
    /\ last = NoCall
    /\ hist = [a \in Party |-> NoHist]
    /\ cv \in {[CvIdle EXCEPT !.orig = x, !.val = x] : x \in ConvertInputs}

NextConvert == \E i \in Formats, o \in Formats : Convert(i, o)

SpecConvert == InitConvert /\ [][NextConvert]_vars

----------------------------------------------------------------------------
(* SpecRekey: one session, constructed with or without a private key,   *)
(* whose prime and generator are set again while keys are derived       *)

\* the digits of a number of 21 digits
Digits21 == [i \in 1..21 |-> IF i \in {1, 20} THEN "1" ELSE IF i = 21 THEN "7" ELSE "0"]

\* numbers of 2, 6, 7 and 21 digits: the lazy private key of the first two
\* has no chunk, of the third one chunk, of the last two chunks
RekeyPrimes == {Dec(11), Dec(100003), Dec(1000003), Digits21}

RekeyGenerators == {Dec(2), Dec(5), Dec(12)}

RekeyKeys == {Null, Dec(3)}

InitRekey ==
    /\ \E p \in RekeyPrimes, g \in RekeyGenerators, k \in RekeyKeys :
          /\ sess = [a \in Party |->
                        IF a = "alice" THEN construct(p, g, k, FORMAT_NUMBER).s
                        ELSE Blank]
          /\ hist = [a \in Party |->
                        [NoHist EXCEPT !.lazy = (a = "alice" /\ k = Null)]]
    /\ last = NoCall
    /\ cv = CvIdle

NextRekey ==
    \/ \E p \in RekeyPrimes \cup {Dec(10)} : SetPrime("alice", p)
    \/ \E g \in RekeyGenerators \cup {Dec(1)} : SetGenerator("alice", g)
    \/ GenerateKeys("alice")
    \/ ComputeSecretKey("alice", Dec(13), FORMAT_NUMBER, FORMAT_NUMBER)
    \/ GetPrivateKey("alice", FORMAT_NUMBER)
    \/ GetPublicKey("alice", FORMAT_NUMBER)
    \/ GetSharedSecretKey("alice", FORMAT_NUMBER)

SpecRekey == InitRekey /\ [][NextRekey]_vars

----------------------------------------------------------------------------
(* SpecKey: a natural number converted to a format, handed to             *)
(* setPrivateKey in that format and read again                            *)

\* the naturals handed over, as decimal strings
KeyNumbers == {Dec(n) : n \in {0, 1, 2, 3, 10, 12, 255}} \cup NearDouble

\* setPrivateKey(convert(cv.orig, number, format), format)
SetConvertedKey(a, format) ==
    LET c == convert(cv.orig, FORMAT_NUMBER, format)
    IN  /\ c.err = "none"
        /\ SetPrivateKey(a, c.val, format)

InitKey ==
    /\ sess = [a \in Party |->
                  IF a = "alice" THEN construct(Dec(11), Dec(2), Null, FORMAT_NUMBER).s
                  ELSE Blank]
    /\ hist = [a \in Party |-> [NoHist EXCEPT !.lazy = (a = "alice")]]
    /\ last = NoCall
    /\ cv \in {[CvIdle EXCEPT !.orig = n] : n \in KeyNumbers}

NextKey ==
    \/ \E f \in Formats : SetConvertedKey("alice", f)
    \/ \E f \in Formats : GetPrivateKey("alice", f)

SpecKey == InitKey /\ [][NextKey]_vars

----------------------------------------------------------------------------
(* Reference arithmetic for the properties: modular exponentiation that  *)
(* reduces after every multiplication, on machine integers               *)

\* x * y mod p, through the exact product
ModMul(x, y, p) == DivRem(MulAdd(IntToMag(x), y, 0), p).r

\* x^n mod p for a small n
RECURSIVE ModPowInt(_, _, _)
ModPowInt(x, n, p) ==
    IF n = 0 THEN 1 % p
    ELSE LET r == ModPowInt(x, n - 1, p) IN Strict(r, ModMul(r, x, p))

\* x^e mod p for the exponent whose decimal digits are e[1..i]
RECURSIVE ModPowDigits(_, _, _, _)
ModPowDigits(x, e, i, p) ==
    IF i = 0 THEN 1 % p
    ELSE LET r == ModPowDigits(x, e, i - 1, p)
         IN  Strict(r, ModMul(ModPowInt(r, 10, p), ModPowInt(x, e[i], p), p))

\* the decimal string of g^a mod p, for decimal strings g, a, p
ModPow(g, a, p) ==
    Dec(ModPowDigits(DivRem(StrToMag(g), MagToInt(StrToMag(p))).r,
                     StrToMag(a), Len(StrToMag(a)), MagToInt(StrToMag(p))))

----------------------------------------------------------------------------
(* Properties of Spec *)

\* C1: after generateKeys() on a session whose private key a was supplied
\* (to the constructor or to setPrivateKey), the call has returned and
\* getPublicKey() is the decimal string of g^a mod p.
C1_PublicKeyIsPower ==
    (last.op = "generateKeys" /\ ~hist[last.party].lazy) =>
        /\ last.err = "none"
        /\ getPublicKey(sess[last.party], FORMAT_NUMBER)
               = Return(sess[last.party],
                        ModPow(sess[last.party].generator,
                               sess[last.party].privateKey,
                               sess[last.party].prime))

\* C3 as stated: in a session on which generateKeys() has not run,
\* getPublicKey() fails, and in a session on which computeSecretKey() has
\* not run, getSharedSecretKey() fails, whatever setters and getters were
\* called before.
C3_NoKeyBeforeGeneration ==
    /\ (last.op = "getPublicKey" /\ ~hist[last.party].generated)
          => last.err = "Error"
    /\ (last.op = "getSharedSecretKey" /\ ~hist[last.party].computed)
          => last.err = "Error"

\* C3 amended: getPublicKey() fails in a session on which generateKeys()
\* has not run and setPublicKey() has not returned; getSharedSecretKey()
\* fails in a session on which computeSecretKey() has not run.
C3_NoKeyBeforeGenerationOrSetter ==
    /\ (last.op = "getPublicKey" /\ ~hist[last.party].generated
            /\ ~hist[last.party].published)
          => last.err = "Error"
    /\ (last.op = "getSharedSecretKey" /\ ~hist[last.party].computed)
          => last.err = "Error"

\* getPublicKey() has just failed on a session that has been through
\* setters and a failed setPublicKey, but not through generateKeys()
C3_Witness ==
    /\ last.op = "getPublicKey" /\ last.err = "Error"
    /\ ~hist.alice.generated /\ ~hist.alice.published
    /\ hist.alice.computed
    /\ sess.alice.privateKey # Null

\* C4: on a session constructed without a private key and never given one,
\* a call that reads the private key leaves one set; once set it is never
\* replaced; and a generateKeys() that returns after another one did (no
\* setter in between) leaves the public key of that one.
C4_LazyKeyOnce ==
    [][(hist.alice.lazy /\ hist'.alice.lazy /\ last'.party = "alice")
          => /\ last'.op \in {"generateKeys", "getPrivateKey"}
                   => sess'.alice.privateKey # Null
             /\ sess.alice.privateKey # Null
                   => sess'.alice.privateKey = sess.alice.privateKey
             /\ (last'.op = "generateKeys" /\ last'.err = "none"
                     /\ hist.alice.run # Null)
                   => sess'.alice.publicKey = hist.alice.run]_vars

\* a second generateKeys() has returned on a session whose private key was
\* generated lazily
C4_Witness ==
    /\ hist.alice.lazy /\ hist.alice.again
    /\ last.op = "generateKeys" /\ last.err = "none"
    /\ sess.alice.privateKey # Null
    /\ sess.alice.publicKey = hist.alice.run

----------------------------------------------------------------------------
(* Properties of SpecExchange *)

\* C2: when both parties have computed the secret from the public key of
\* the other, the two secrets are equal, and each call returned the secret
\* it stored; with p = 563, g = 5 and the private keys 9 and 14 the public
\* keys are 78 and 534 and the secret is 117.
C2_SharedSecretAgrees ==
    /\ (sess.alice.secretKey # Null /\ sess.bob.secretKey # Null)
          => sess.alice.secretKey = sess.bob.secretKey
    /\ (last.op = "computeSecretKey" /\ last.err = "none")
          => last.val = sess[last.party].secretKey
    /\ (sess.alice.prime = <<"5", "6", "3">> /\ sess.alice.generator = <<"5">>
            /\ sess.alice.privateKey = <<"9">> /\ sess.bob.privateKey = <<"1", "4">>)
          => /\ sess.alice.publicKey \in {Null, <<"7", "8">>}
             /\ sess.bob.publicKey \in {Null, <<"5", "3", "4">>}
             /\ sess.alice.secretKey \in {Null, <<"1", "1", "7">>}
             /\ sess.bob.secretKey \in {Null, <<"1", "1", "7">>}

\* both parties of the repository's test have computed the secret
C2_Witness ==
    /\ sess.alice.prime = <<"5", "6", "3">>
    /\ sess.alice.privateKey = <<"9">> /\ sess.bob.privateKey = <<"1", "4">>
    /\ sess.alice.secretKey = <<"1", "1", "7">>
    /\ sess.bob.secretKey = <<"1", "1", "7">>
    /\ last.op = "computeSecretKey"

----------------------------------------------------------------------------
(* What the properties call a numeral *)

\* a non-empty string of decimal digits
IsNatural(x) == x # <<>> /\ x \in Seq(Digit)

\* a decimal numeral without leading zeros
IsCanonical(x) == IsNatural(x) /\ (Len(x) = 1 \/ x[1] # "0")

\* the value of the digit string x is below the small number n
Below(x, n) == \E k \in 0..(n - 1) : StrToMag(x) = IntToMag(k)

ValidPrime(x) == IsNatural(x) /\ ~Below(x, 11)

ValidGenerator(x) == IsNatural(x) /\ ~Below(x, 2)

\* x has a character that is no digit of the base its format declares
Malformed(x, format) ==
    \E i \in 1..Len(x) :
        x[i] \notin (IF format = FORMAT_NUMBER THEN Digit ELSE BinDigit)

Fields == {"prime", "generator", "privateKey", "publicKey", "secretKey"}

----------------------------------------------------------------------------
(* Further properties of Spec *)

\* C6: setPrivateKey, setPublicKey and computeSecretKey fail when the key
\* they are given has a character that is no digit of the format it is
\* declared in (a letter, a sign).
C6_RejectsMalformedKeys ==
    (last.op \in {"setPrivateKey", "setPublicKey", "computeSecretKey"}
        /\ Malformed(last.arg, last.fmt))
      => last.err # "none"

\* C7: a call that fails leaves the five fields as they were before it.
C7_FailureKeepsFields ==
    [][last'.err # "none" => sess' = sess]_vars

\* C10: each of the five fields of a session is unset or a non-empty
\* string of decimal digits, in every reachable state.
C10_FieldsAreNaturals ==
    \A a \in Party : \A f \in Fields :
        sess[a][f] = Null \/ IsNatural(sess[a][f])

\* all five fields are set and a setter has just refused a negative number
C10_Witness ==
    /\ \A f \in Fields : sess.alice[f] # Null
    /\ last.op = "setPrivateKey" /\ last.arg = <<"-", "2">>
    /\ last.err = "TypeError"

----------------------------------------------------------------------------
(* Properties of SpecValidate *)

----------------------------------------------------------------------------
(* Properties of SpecConvert *)

\* C8: a decimal numeral converted from number to binary and back from
\* binary to number is the numeral again.
C8_RoundTrip ==
    (/\ cv.trail = << <<FORMAT_NUMBER, FORMAT_BINARY>>, <<FORMAT_BINARY, FORMAT_NUMBER>> >>
     /\ IsCanonical(cv.orig))
      => (cv.err = "none" /\ cv.val = cv.orig)

\* C9: convert between two different formats fails when its input has a
\* character that is no digit of the base the input format declares.
C9_RejectsMalformedInput ==
    (/\ cv.trail # <<>>
     /\ cv.trail[Len(cv.trail)][1] # cv.trail[Len(cv.trail)][2]
     /\ Malformed(cv.arg, cv.trail[Len(cv.trail)][1]))
      => cv.err # "none"

----------------------------------------------------------------------------
(* Properties of Spec: the life of a session *)

\* C11: no call unsets the public key or the secret key; a generateKeys()
\* after an earlier one changes no field but the public key, and a
\* computeSecretKey() on a session that holds a secret changes no field
\* but the secret key.
C11_NoBackward ==
    [][/\ \A a \in Party :
            /\ sess[a].publicKey # Null => sess'[a].publicKey # Null
            /\ sess[a].secretKey # Null => sess'[a].secretKey # Null
       /\ (last'.op = "generateKeys" /\ hist[last'.party].generated)
             => \A f \in Fields \ {"publicKey"} :
                    sess'[last'.party][f] = sess[last'.party][f]
       /\ (last'.op = "computeSecretKey" /\ sess[last'.party].secretKey # Null)
             => \A f \in Fields \ {"secretKey"} :
                    sess'[last'.party][f] = sess[last'.party][f]]_vars

\* a second generateKeys() has returned on a session that holds a secret
C11_Witness ==
    /\ hist.alice.again /\ hist.alice.computed
    /\ last.op = "generateKeys" /\ last.err = "none"
    /\ sess.alice.publicKey # Null /\ sess.alice.secretKey # Null

\* C12 as stated: in every reachable state in which the secret key is set
\* the public key is set.
C12_SecretNeedsPublicKey ==
    \A a \in Party : sess[a].secretKey # Null => sess[a].publicKey # Null

\* C12 amended: a computeSecretKey() that returns leaves the secret key
\* set, whether or not the public key is, and in every reachable state in
\* which the secret key is set the private key is set.
C12_SecretNeedsPrivateKey ==
    /\ \A a \in Party : sess[a].secretKey # Null => sess[a].privateKey # Null
    /\ (last.op = "computeSecretKey" /\ last.err = "none")
          => sess[last.party].secretKey # Null

\* computeSecretKey() has returned on a session constructed without a
\* private key, on which no public key was ever set
C12_Witness ==
    /\ last.op = "computeSecretKey" /\ last.err = "none"
    /\ hist.alice.lazy /\ ~hist.alice.generated /\ ~hist.alice.published
    /\ sess.alice.secretKey # Null /\ sess.alice.privateKey # Null
    /\ sess.alice.publicKey = Null

\* x is a numeral of the base its format declares
WellFormed(x, format) == x # <<>> /\ ~Malformed(x, format)

\* the decimal numeral of the numeral x of the given format
DecimalOf(x, format) ==
    IF format = FORMAT_NUMBER THEN x
    ELSE BigIntToString([neg |-> FALSE,
                         mag |-> BitsToMag([i \in 1..Len(x) |-> DigitVal(x[i])])])

\* the numeral of the given format of the decimal numeral x
NumeralOf(x, format) ==
    IF format = FORMAT_NUMBER THEN x
    ELSE BigIntToString2([neg |-> FALSE, mag |-> StrToMag(x)])

\* C13: computeSecretKey() given a natural number B, in any format and of
\* any size (0, above the prime), returns; the secret key is then
\* B^privateKey mod prime and the value returned is that number in the
\* format asked for.
C13_AnyRemoteKey ==
    (last.op = "computeSecretKey" /\ WellFormed(last.arg, last.fmt))
      => /\ last.err = "none"
         /\ sess[last.party].secretKey
               = ModPow(DecimalOf(last.arg, last.fmt),
                        sess[last.party].privateKey, sess[last.party].prime)
         /\ last.val = NumeralOf(sess[last.party].secretKey, last.ofmt)

----------------------------------------------------------------------------
\* C14: a successful setPrime changes only the prime and a successful
\* setGenerator changes only the generator; the keys derived before stay as
\* they were and getPublicKey / getSharedSecretKey still return them, without
\* an error and without changing the session.
C14_SettersKeepKeys ==
    [][\A a \in Party :
          (last'.party = a /\ last'.err = "none"
              /\ last'.op \in {"setPrime", "setGenerator"})
          => /\ \A f \in Fields \ {IF last'.op = "setPrime" THEN "prime" ELSE "generator"} :
                   sess'[a][f] = sess[a][f]
             /\ sess'[a][IF last'.op = "setPrime" THEN "prime" ELSE "generator"] = last'.arg
             /\ sess[a].publicKey # Null
                   => getPublicKey(sess'[a], FORMAT_NUMBER)
                         = Return(sess'[a], sess[a].publicKey)
             /\ sess[a].secretKey # Null
                   => getSharedSecretKey(sess'[a], FORMAT_NUMBER)
                         = Return(sess'[a], sess[a].secretKey)]_vars

\* a generator was set after both keys were derived: the public key kept is
\* no longer the power of the new generator
C14_Witness ==
    /\ last.op = "setGenerator" /\ last.err = "none" /\ last.party = "alice"
    /\ sess.alice.publicKey # Null
    /\ sess.alice.secretKey # Null
    /\ sess.alice.prime = Dec(11)
    /\ sess.alice.publicKey
          # ModPow(sess.alice.generator, sess.alice.privateKey, sess.alice.prime)

----------------------------------------------------------------------------
\* binary for btwoc, every other format for itself
AsBinary(format) == IF format = FORMAT_BTWOC THEN FORMAT_BINARY ELSE format

\* btwoc for binary and binary for btwoc, number for itself
Swapped(format) ==
    IF format = FORMAT_BTWOC THEN FORMAT_BINARY
    ELSE IF format = FORMAT_BINARY THEN FORMAT_BTWOC
    ELSE format

\* the formats of the conversion made last
LastFormats == cv.trail[Len(cv.trail)]

\* C15: btwoc is treated as binary: every conversion gives the result (value
\* or failure) of the conversion with binary in the place of btwoc as the
\* input and as the output format; a conversion between binary and btwoc is
\* then a same-format conversion.
C15_BtwocIsBinary ==
    cv.trail # <<>>
      => LET r == convert(cv.arg, AsBinary(LastFormats[1]), AsBinary(LastFormats[2]))
         IN  cv.val = r.val /\ cv.err = r.err

\* C15 as the code has it: with number as the other format, and with equal
\* formats, btwoc gives the result of binary; a conversion between binary
\* and btwoc is not a same-format conversion: the input is read in base 2
\* and written again, the same in both directions.
C15_BtwocIsBinaryButNotSame ==
    cv.trail # <<>>
      => LET i == LastFormats[1]
             o == LastFormats[2]
             r == IF i # o /\ FORMAT_NUMBER \notin {i, o}
                  THEN convert(cv.arg, Swapped(i), Swapped(o))
                  ELSE convert(cv.arg, AsBinary(i), AsBinary(o))
             n == Render(NumberToBigInt(ParseInt2(cv.arg)), FORMAT_BINARY)
         IN  /\ cv.val = r.val /\ cv.err = r.err
             /\ (i # o /\ FORMAT_NUMBER \notin {i, o})
                   => cv.val = n.val /\ cv.err = n.err

\* binary digits with a leading zero were converted from binary to btwoc
\* and came back without it
C15_Witness ==
    /\ cv.trail # <<>>
    /\ LastFormats = <<FORMAT_BINARY, FORMAT_BTWOC>>
    /\ cv.err = "none"
    /\ cv.arg = <<"0", "1">>
    /\ cv.val = <<"1">>

----------------------------------------------------------------------------
\* C16: setPrivateKey(convert(n, number, f), f) returns and stores the
\* decimal string of n, for every natural n and every format f; the
\* getPrivateKey that follows returns the decimal string of n in the number
\* format and the value that was supplied in the format f.
C16_KeyRoundTrip ==
    [][/\ (last'.op = "setPrivateKey" /\ last'.arg # Null)
            => /\ last'.err = "none"
               /\ sess'[last'.party].privateKey = cv.orig
       /\ (last.op = "setPrivateKey" /\ last'.op = "getPrivateKey")
            => /\ last'.err = "none"
               /\ last'.ofmt = FORMAT_NUMBER => last'.val = cv.orig
               /\ last'.ofmt = last.fmt => last'.val = last.arg]_vars

----------------------------------------------------------------------------
\* C17: the private key generated lazily is made of round(digits / 14) random
\* chunks of 14 or 15 digits, digits being the decimal digits of the stored
\* prime; with a prime of fewer than 7 digits there is no chunk, the key is
\* 0, and generateKeys returns with the public key 1, whatever the generator.
C17_LazyKeySize ==
    [][\A a \in Party :
          (last'.party = a /\ ~isset(sess[a].privateKey) /\ isset(sess'[a].privateKey))
          => LET digits == Len(sess[a].prime)
                 key == sess'[a].privateKey
             IN  /\ \E chunks \in 0..3 :
                       /\ 14 * chunks - 7 <= digits
                       /\ digits < 14 * chunks + 7
                       /\ IF chunks = 0 THEN key = <<"0">>
                          ELSE 14 * chunks <= Len(key) /\ Len(key) <= 15 * chunks
                 /\ digits < 7 => key = <<"0">>
                 /\ (digits < 7 /\ last'.op = "generateKeys")
                       => /\ last'.err = "none"
                          /\ sess'[a].publicKey = <<"1">>]_vars

\* generateKeys generated the key 0 under a prime of 6 digits and the
\* generator 12, and the public key is 1
C17_Witness ==
    /\ last.op = "generateKeys" /\ last.err = "none"
    /\ hist.alice.lazy
    /\ Len(sess.alice.prime) = 6
    /\ sess.alice.generator = Dec(12)
    /\ sess.alice.privateKey = <<"0">>
    /\ sess.alice.publicKey = <<"1">>

----------------------------------------------------------------------------
\* the key in the field of the session s is a number below the prime of s
BelowPrime(s, field) ==
    /\ IsNatural(s[field])
    /\ MagLess(StrToMag(s[field]), StrToMag(s.prime))

----------------------------------------------------------------------------
\* C19: getPrime, getGenerator, getPublicKey and getSharedSecretKey leave
\* the five fields as they were, whether they return or throw and in every
\* output format; getPrivateKey leaves the other four fields as they were
\* and changes the private key only when there was none before the call.
C19_ReadsKeepFields ==
    [][/\ last'.op \in {"getPrime", "getGenerator", "getPublicKey", "getSharedSecretKey"}
            => sess' = sess
       /\ last'.op = "getPrivateKey"
            => /\ \A f \in Fields \ {"privateKey"} :
                     sess'[last'.party][f] = sess[last'.party][f]
               /\ sess[last'.party].privateKey # Null
                     => sess'[last'.party].privateKey = sess[last'.party].privateKey
               /\ \A a \in Party \ {last'.party} : sess'[a] = sess[a]]_vars

\* getSharedSecretKey was asked for the binary format and has returned the
\* secret key, which is still stored in decimal and is no binary numeral
C19_Witness ==
    /\ last.op = "getSharedSecretKey" /\ last.err = "none" /\ last.party = "alice"
    /\ last.ofmt = FORMAT_BINARY
    /\ sess.alice.secretKey # last.val
    /\ sess.alice.publicKey # Null
    /\ sess.alice.privateKey # Null

====
